---- MODULE Spec2Model ----
(***************************************************************************)
(* A model of stats.py (mozilla-conduit/phab-etl): the export of the       *)
(* Phabricator review data into one nested report.                         *)
(*                                                                         *)
(* The store (the four MySQL partitions) is read-only during a run; it is  *)
(* the variable db, a record with one field per reflected table, each a   *)
(* set or a sequence of rows.  Handles (phids) and titles are strings, so  *)
(* that startswith and split are computed on the characters.               *)
(***************************************************************************)
EXTENDS Integers, Sequences, FiniteSets, TLC

VARIABLES
    db,         \* the store: one field per table
    origin,     \* get_stack_size: the revision row it was called with
    neighbors,  \* get_stack_size: the frontier
    stack,      \* get_stack_size: the visited set
    rounds,     \* get_stack_size: iterations of the while loop done so far
    size,       \* get_stack_size: the returned value (0 until it returns)
    pc,         \* where the running function stands
    todo,       \* process: the revisions still to aggregate, in query order
    output,     \* process: the report built so far (revision id -> record)
    report      \* the file written by export_to_json (<<>> until written)

vars == <<db, origin, neighbors, stack, rounds, size, pc, todo, output, report>>

----------------------------------------------------------------------------
(* Bounds of the model.                                                    *)

\* handles that may be the phid of a revision, in the stack resolver's stores
NumRevs == 3
\* rows of the edge table, in the stack resolver's stores
MaxEdges == 2
\* rows of the table a store of process varies
MaxRows == 2

----------------------------------------------------------------------------
(* Strings.                                                                *)

Digits == <<"1", "2", "3", "4", "5", "6", "7", "8", "9">>

\* bytes.startswith(prefix)
startswith(s, p) == Len(s) >= Len(p) /\ SubSeq(s, 1, Len(p)) = p

\* the index of the first "-" of s at or after i, Len(s) + 1 when there is none
RECURSIVE FirstDash(_, _)
FirstDash(s, i) ==
    IF i > Len(s) THEN i
    ELSE IF SubSeq(s, i, i) = "-" THEN i
    ELSE FirstDash(s, i + 1)

\* title.split("-")[0]
BugId(title) == SubSeq(title, 1, FirstDash(title, 1) - 1)

----------------------------------------------------------------------------
(* The store.                                                              *)

RevPhid(i) == "PHID-DREV-" \o Digits[i]

\* the titles of the model: two of bug "B1" (one without any "-"), one of "B12"
Titles == <<"B1-a", "B1", "B12-a-b">>

\* the two dependency edge types of the query, and one that is neither
DependsOn == 5
DependedOnBy == 6
EdgeTypes == {DependsOn, DependedOnBy, 3}

\* the handles an edge may name: some are the phid of no revision
EdgePhids(n) == {RevPhid(i) : i \in 1..n}

EdgeRows(n) == [src : EdgePhids(n), dst : EdgePhids(n), type : EdgeTypes]

\* the subsets of S with at most k elements
RECURSIVE UpTo(_, _)
UpTo(S, k) ==
    IF k = 0 THEN {{}}
    ELSE LET smaller == UpTo(S, k - 1)
         IN  smaller \cup {T \cup {x} : T \in smaller, x \in S}

RevisionRow(i, title, repo) ==
    [id |-> i, phid |-> RevPhid(i), title |-> title, repositoryPHID |-> repo,
     status |-> "needs-review", dateCreated |-> 100 + i]

EmptyDb ==
    [revision |-> {}, edge |-> {}, user |-> {}, project |-> {},
     repository_uri |-> <<>>, differential_diff |-> <<>>,
     differential_changeset |-> <<>>, differential_transaction |-> <<>>,
     differential_transaction_comment |-> <<>>, differential_reviewer |-> <<>>]

----------------------------------------------------------------------------
(* get_stack_size                                                          *)

\* a variant of the edge query that forgets the `dst in neighbors` half
EdgeQuerySrcOnly(d, frontier) ==
    {e \in d.edge : e.src \in frontier /\ e.type \in {DependsOn, DependedOnBy}}

\* a variant of the edge query that forgets the filter on the edge type
EdgeQueryAnyType(d, frontier) ==
    {e \in d.edge : e.src \in frontier \/ e.dst \in frontier}

\* the edge query of one round
EdgeQuery(d, frontier) ==
    {e \in d.edge : (e.src \in frontier \/ e.dst \in frontier)
                    /\ e.type \in {DependsOn, DependedOnBy}}

\* a variant of revlist that forgets the loop over the dst endpoints
RevListSrcOnly(d, bug_id, frontier) ==
    UNION {
        {r.phid : r \in {r \in d.revision : r.phid = e.src /\ BugId(r.title) = bug_id}}
        : e \in EdgeQuery(d, frontier)}

\* a variant of revlist that forgets the bug test on the dst endpoints
RevListAnyBugDst(d, bug_id, frontier) ==
    UNION {
        {r.phid : r \in {r \in d.revision : r.phid = e.src /\ BugId(r.title) = bug_id}}
        \cup
        {r.phid : r \in {r \in d.revision : r.phid = e.dst}}
        : e \in EdgeQuery(d, frontier)}

\* revlist of one round, as a set: the endpoints that are revisions of the bug
RevList(d, bug_id, frontier) ==
    UNION {
        {r.phid : r \in {r \in d.revision : r.phid = e.src /\ BugId(r.title) = bug_id}}
        \cup
        {r.phid : r \in {r \in d.revision : r.phid = e.dst /\ BugId(r.title) = bug_id}}
        : e \in EdgeQuery(d, frontier)}

\* stack.update(neighbors)
StackUpdate(visited, frontier) == visited \cup frontier

\* a variant of the next frontier that forgets to take the visited set out
NextNeighborsKeepVisited(d, bug_id, visited, frontier) ==
    RevList(d, bug_id, frontier)

\* set(revlist) - stack
NextNeighbors(d, bug_id, visited, frontier) ==
    RevList(d, bug_id, frontier) \ StackUpdate(visited, frontier)

\* the whole loop, as the function computes it: len(stack) when it ends
RECURSIVE StackLoop(_, _, _, _)
StackLoop(d, bug_id, visited, frontier) ==
    IF frontier = {} THEN Cardinality(visited)
    ELSE StackLoop(d, bug_id, StackUpdate(visited, frontier),
                   NextNeighbors(d, bug_id, visited, frontier))

get_stack_size(d, rev) == StackLoop(d, BugId(rev.title), {}, {rev.phid})

\* one iteration of the while loop
StackRound ==
    /\ pc = "stack_loop"
    /\ neighbors # {}
    /\ stack' = StackUpdate(stack, neighbors)
    /\ neighbors' = NextNeighbors(db, BugId(origin.title), stack, neighbors)
    /\ rounds' = rounds + 1
    /\ UNCHANGED <<db, origin, size, pc, todo, output, report>>

\* the loop ends and the function returns len(stack)
StackReturn ==
    /\ pc = "stack_loop"
    /\ neighbors = {}
    /\ size' = Cardinality(stack)
    /\ pc' = "stack_done"
    /\ UNCHANGED <<db, origin, neighbors, stack, rounds, todo, output, report>>

\* The stores of the stack resolver: revisions 1..n (the handles above n name
\* no revision), any titles, at most MaxEdges edges between any handles.  The
\* revisions are numbered in title order: the code compares phids for
\* equality only, so any other store is a renaming of one of these.
\* The stores of the stack resolver name n handles.  The last one may be the
\* phid of no revision; the others are revisions, with any titles.
\* get_stack_size is called with revision 1 and the other revisions are
\* numbered in title order: the code compares phids for equality only, so
\* every other store and origin is a renaming of one of these.
TitleChoices(n) ==
    {t \in [1..(n - 1) -> DOMAIN Titles] \cup [1..n -> DOMAIN Titles] :
        \A i, j \in DOMAIN t : (1 < i /\ i <= j) => t[i] <= t[j]}

StackStore(t, es) ==
    [EmptyDb EXCEPT
        !.revision = {RevisionRow(i, Titles[t[i]], "PHID-REPO-1") : i \in DOMAIN t},
        !.edge = es]

\* get_stack_size is entered, on a store of n handles and at most k edges
StackEntry(n, k) ==
    /\ \E t \in TitleChoices(n), es \in UpTo(EdgeRows(n), k) : db = StackStore(t, es)
    /\ origin \in {r \in db.revision : r.id = 1}
    /\ neighbors = {origin.phid}
    /\ stack = {}
    /\ rounds = 0
    /\ size = 0
    /\ pc = "stack_loop"
    /\ todo = <<>>
    /\ output = <<>>
    /\ report = <<>>

InitStack == StackEntry(NumRevs, MaxEdges)

\* one more handle and one more edge: the smallest stores in which a chain
\* of edges leaves the revisions of a bug and comes back to two of them
InitStackWide == StackEntry(NumRevs + 1, MaxEdges + 1)

NextStack == StackRound \/ StackReturn

SpecStack == InitStack /\ [][NextStack]_vars

SpecStackWide == InitStackWide /\ [][NextStack]_vars

----------------------------------------------------------------------------
(* Results of the functions that may raise, dictionaries, queries.         *)

\* an exception propagating out of a function
Raise == [raised |-> TRUE]
\* a function returning v
Ok(v) == [raised |-> FALSE, value |-> v]

\* dict[key] = value
Put(dict, key, value) ==
    [k \in DOMAIN dict \cup {key} |-> IF k = key THEN value ELSE dict[k]]

\* a variant of Query.one() that behaves as Query.first() would: some
\* matching row, an exception only when there is none
one_or_first(rows) ==
    IF rows # {} THEN Ok(CHOOSE r \in rows : TRUE) ELSE Raise

\* Query.one(): the only row, NoResultFound or MultipleResultsFound otherwise
one(rows) ==
    IF Cardinality(rows) = 1 THEN Ok(CHOOSE r \in rows : TRUE) ELSE Raise

\* the f-string keys: f"diff-{id}", f"D{id}", ...
Key(prefix, id) == prefix \o Digits[id]

----------------------------------------------------------------------------
(* get_last_review_id, get_target_repository, get_user_name                *)

\* None is <<>>, an id is <<id>>
get_last_review_id(d, revision_phid) ==
    LET rows == SelectSeq(d.differential_reviewer,
                          LAMBDA r : r.revisionPHID = revision_phid)
    IN  IF rows = <<>> THEN <<>>
        ELSE LET i == CHOOSE i \in DOMAIN rows :
                        \A j \in DOMAIN rows : rows[j].dateModified <= rows[i].dateModified
             IN  <<rows[i].id>>

\* Query.first() gives the first matching row or None; None.uri raises
get_target_repository(d, repository_phid) ==
    LET rows == SelectSeq(d.repository_uri,
                          LAMBDA r : r.repositoryPHID = repository_phid)
    IN  IF rows = <<>> THEN Raise ELSE Ok(rows[1].uri)

get_user_name(d, authorPHID) ==
    LET user == one({u \in d.user : u.phid = authorPHID})
    IN  IF user.raised THEN Raise ELSE Ok(user.value.userName)

----------------------------------------------------------------------------
(* get_review_requests                                                     *)

\* a variant of the reviewer lookup that forgets the group branch
reviewer_name_user_only(d, review) ==
    LET reviewer == one({u \in d.user : u.phid = review.reviewerPHID})
    IN  IF reviewer.raised THEN Raise ELSE Ok(reviewer.value.userName)

is_reviewer_group(reviewerPHID) == startswith(reviewerPHID, "PHID-PROJ-")

\* the name of the reviewer of one reviewer row
reviewer_name(d, review) ==
    IF is_reviewer_group(review.reviewerPHID)
    THEN LET reviewer == one({p \in d.project : p.phid = review.reviewerPHID})
         IN  IF reviewer.raised THEN Raise ELSE Ok(reviewer.value.name)
    ELSE LET reviewer == one({u \in d.user : u.phid = review.reviewerPHID})
         IN  IF reviewer.raised THEN Raise ELSE Ok(reviewer.value.userName)

RECURSIVE ReviewLoop(_, _, _)
ReviewLoop(d, rows, review_requests) ==
    IF rows = <<>> THEN Ok(review_requests)
    ELSE LET review == Head(rows)
             name == reviewer_name(d, review)
         IN  IF name.raised THEN Raise
             ELSE ReviewLoop(d, Tail(rows),
                    Put(review_requests, Key("review-", review.id),
                        [reviewer |-> name.value,
                         is_group |-> is_reviewer_group(review.reviewerPHID),
                         creation_timestamp |-> review.dateCreated,
                         review_timestamp |-> review.dateModified,
                         status |-> review.reviewerStatus]))

get_review_requests(d, revision_phid) ==
    ReviewLoop(d, SelectSeq(d.differential_reviewer,
                            LAMBDA r : r.revisionPHID = revision_phid), <<>>)

----------------------------------------------------------------------------
(* get_changeset_comments, get_comments                                    *)

\* JSON values: a string, true/false, null, an object (m: key -> value)
JStr(text) == [t |-> "str", s |-> text]
JBool(text) == [t |-> "bool", s |-> text]
JNull == [t |-> "null", s |-> "null"]
JObj(members) == [t |-> "obj", s |-> "", m |-> members]

\* one key-value pair as a mapping
Member(key, value) == [k \in {key} |-> value]

\* json.loads on the attribute texts of the model; any other text is not JSON
json_loads(text) ==
    CASE text = "{}" -> Ok(JObj(<<>>))
      [] text = "{\"inline.state.initial\": {\"hassuggestion\": \"true\"}}" ->
            Ok(JObj(Member("inline.state.initial",
                           JObj(Member("hassuggestion", JStr("true"))))))
      [] text = "{\"inline.state.initial\": {\"hassuggestion\": \"false\"}}" ->
            Ok(JObj(Member("inline.state.initial",
                           JObj(Member("hassuggestion", JStr("false"))))))
      [] text = "{\"inline.state.initial\": {\"hassuggestion\": true}}" ->
            Ok(JObj(Member("inline.state.initial",
                           JObj(Member("hassuggestion", JBool("true"))))))
      [] text = "{\"inline.state.initial\": {}}" ->
            Ok(JObj(Member("inline.state.initial", JObj(<<>>))))
      [] text = "{\"inline.state.initial\": null}" ->
            Ok(JObj(Member("inline.state.initial", JNull)))
      [] text = "{\"hassuggestion\": \"true\"}" ->
            Ok(JObj(Member("hassuggestion", JStr("true"))))
      [] OTHER -> Raise

\* a variant of is_suggestion that takes the JSON value true for "true"
is_suggestion_truthy(att) ==
    IF "inline.state.initial" \in DOMAIN att.m
    THEN LET initial == att.m["inline.state.initial"]
         IN  IF initial.t # "obj" THEN Raise
             ELSE LET got == IF "hassuggestion" \in DOMAIN initial.m
                             THEN initial.m["hassuggestion"] ELSE JNull
                  IN  Ok(got.t \in {"str", "bool"} /\ got.s = "true")
    ELSE Ok(FALSE)

\* the is_suggestion expression on the loaded document; calling .get on a
\* value that is no object raises AttributeError
is_suggestion(att) ==
    IF "inline.state.initial" \in DOMAIN att.m
    THEN LET initial == att.m["inline.state.initial"]
         IN  IF initial.t # "obj" THEN Raise
             ELSE LET got == IF "hassuggestion" \in DOMAIN initial.m
                             THEN initial.m["hassuggestion"] ELSE JNull
                  IN  Ok(got.t = "str" /\ got.s = "true")
    ELSE Ok(FALSE)

\* the body of the loop of get_changeset_comments for one comment row
changeset_comment(d, comment) ==
    LET user == one({u \in d.user : u.phid = comment.authorPHID})
        att == json_loads(comment.attributes)
    IN  IF user.raised \/ att.raised THEN Raise
        ELSE LET flag == is_suggestion(att.value)
             IN  IF flag.raised THEN Raise
                 ELSE Ok([author |-> user.value.userName,
                          timestamp |-> comment.dateCreated,
                          character_count |-> Len(comment.content),
                          is_suggestion |-> flag.value])

RECURSIVE ChangesetCommentLoop(_, _, _)
ChangesetCommentLoop(d, rows, comments) ==
    IF rows = <<>> THEN Ok(comments)
    ELSE LET entry == changeset_comment(d, Head(rows))
         IN  IF entry.raised THEN Raise
             ELSE ChangesetCommentLoop(d, Tail(rows),
                    Put(comments, Key("comment-", Head(rows).id), entry.value))

get_changeset_comments(d, changeset) ==
    ChangesetCommentLoop(d, SelectSeq(d.differential_transaction_comment,
                                      LAMBDA c : c.changesetID = changeset.id), <<>>)

\* the body of the loop of get_comments for one transaction row
general_comment(d, transaction) ==
    LET comment == one({d.differential_transaction_comment[i] :
                          i \in {i \in DOMAIN d.differential_transaction_comment :
                                   d.differential_transaction_comment[i].phid
                                     = transaction.commentPHID}})
    IN  IF comment.raised THEN Raise
        ELSE LET user == one({u \in d.user : u.phid = comment.value.authorPHID})
             IN  IF user.raised THEN Raise
                 ELSE Ok([id |-> comment.value.id,
                          entry |-> [author |-> user.value.userName,
                                     timestamp |-> comment.value.dateCreated,
                                     character_count |-> Len(comment.value.content)]])

\* a variant of the loop of get_comments that leaves a comment out when its
\* lookups fail
RECURSIVE CommentLoopSkipping(_, _, _)
CommentLoopSkipping(d, rows, comments) ==
    IF rows = <<>> THEN Ok(comments)
    ELSE LET got == general_comment(d, Head(rows))
         IN  IF got.raised THEN CommentLoopSkipping(d, Tail(rows), comments)
             ELSE CommentLoopSkipping(d, Tail(rows),
                    Put(comments, Key("comment-", got.value.id), got.value.entry))

RECURSIVE CommentLoop(_, _, _)
CommentLoop(d, rows, comments) ==
    IF rows = <<>> THEN Ok(comments)
    ELSE LET got == general_comment(d, Head(rows))
         IN  IF got.raised THEN Raise
             ELSE CommentLoop(d, Tail(rows),
                    Put(comments, Key("comment-", got.value.id), got.value.entry))

get_comments(d, revision_phid) ==
    CommentLoop(d, SelectSeq(d.differential_transaction,
                             LAMBDA x : x.objectPHID = revision_phid
                                        /\ x.transactionType = "core:comment"), <<>>)

----------------------------------------------------------------------------
(* get_changesets, get_diffs                                               *)

RECURSIVE ChangesetLoop(_, _, _)
ChangesetLoop(d, rows, changesets) ==
    IF rows = <<>> THEN Ok(changesets)
    ELSE LET changeset == Head(rows)
             comments == get_changeset_comments(d, changeset)
         IN  IF comments.raised THEN Raise
             ELSE ChangesetLoop(d, Tail(rows),
                    Put(changesets, Key("changeset-", changeset.id),
                        [lines_added |-> changeset.addLines,
                         lines_removed |-> changeset.delLines,
                         comments |-> comments.value]))

get_changesets(d, diff) ==
    ChangesetLoop(d, SelectSeq(d.differential_changeset,
                               LAMBDA c : c.diffID = diff.id), <<>>)

\* a variant of the tests of get_diffs that compares the repository-identity
\* prefix for equality
is_ignored_diff_equality(authorPHID) ==
    \/ authorPHID = "PHID-APPS-PhabricatorDiffusionApplication"
    \/ authorPHID = "PHID-RIDT-"

\* the two `continue` tests of get_diffs
is_ignored_diff(authorPHID) ==
    \/ authorPHID = "PHID-APPS-PhabricatorDiffusionApplication"
    \/ startswith(authorPHID, "PHID-RIDT-")

RECURSIVE DiffLoop(_, _, _, _)
DiffLoop(d, revision, rows, diffs) ==
    IF rows = <<>> THEN Ok(diffs)
    ELSE LET diff == Head(rows)
         IN  IF is_ignored_diff(diff.authorPHID)
             THEN DiffLoop(d, revision, Tail(rows), diffs)
             ELSE LET author == get_user_name(d, diff.authorPHID)
                      changesets == get_changesets(d, diff)
                      reviews == get_review_requests(d, revision.phid)
                  IN  IF author.raised \/ changesets.raised \/ reviews.raised
                      THEN Raise
                      ELSE DiffLoop(d, revision, Tail(rows),
                             Put(diffs, Key("diff-", diff.id),
                                 [submission_time |-> diff.dateCreated,
                                  author |-> author.value,
                                  changesets |-> changesets.value,
                                  review_requests |-> reviews.value]))

get_diffs(d, revision) ==
    DiffLoop(d, revision, SelectSeq(d.differential_diff,
                                    LAMBDA x : x.revisionID = revision.id), <<>>)

----------------------------------------------------------------------------
(* process, export_to_json                                                 *)

\* the record of one revision, or the exception one of its lookups raised
revision_record(d, revision) ==
    LET repository == get_target_repository(d, revision.repositoryPHID)
        diffs == get_diffs(d, revision)
        comments == get_comments(d, revision.phid)
    IN  IF repository.raised \/ diffs.raised \/ comments.raised THEN Raise
        ELSE Ok([first_submission_timestamp |-> revision.dateCreated,
                 last_review_id |-> get_last_review_id(d, revision.phid),
                 current_status |-> revision.status,
                 target_repository |-> repository.value,
                 stack_size |-> get_stack_size(d, revision),
                 diffs |-> diffs.value,
                 comments |-> comments.value])

\* one iteration of the loop of process: the revision's record is stored
AggregateRevision ==
    /\ pc = "process_loop"
    /\ todo # <<>>
    /\ LET r == revision_record(db, Head(todo))
       IN  /\ ~r.raised
           /\ output' = Put(output, Key("D", Head(todo).id), r.value)
    /\ todo' = Tail(todo)
    /\ UNCHANGED <<db, origin, neighbors, stack, rounds, size, pc, report>>

\* one iteration of the loop of process: an exception leaves process
Abort ==
    /\ pc = "process_loop"
    /\ todo # <<>>
    /\ revision_record(db, Head(todo)).raised
    /\ pc' = "aborted"
    /\ UNCHANGED <<db, origin, neighbors, stack, rounds, size, todo, output, report>>

\* the loop is over: export_to_json(output)
export_to_json ==
    /\ pc = "process_loop"
    /\ todo = <<>>
    /\ report' = <<output>>
    /\ pc' = "exported"
    /\ UNCHANGED <<db, origin, neighbors, stack, rounds, size, todo, output>>

----------------------------------------------------------------------------
(* The stores of process: two revisions of one bug, linked by one edge.    *)
(* Each store varies some tables and keeps the others as in BaseChoice.    *)

SeqsUpTo(S, k) == UNION {[1..n -> S] : n \in 0..k}

ProcRevisions ==
    {RevisionRow(1, "B1-a", "PHID-REPO-1"), RevisionRow(2, "B1-b", "PHID-REPO-2")}

ProcEdges == {[src |-> RevPhid(1), dst |-> RevPhid(2), type |-> DependsOn]}

\* the user table may miss PHID-USER-1, hold it twice, or hold a group's handle
UserRows ==
    {[phid |-> "PHID-USER-1", userName |-> "alice"],
     [phid |-> "PHID-USER-1", userName |-> "alice2"],
     [phid |-> "PHID-PROJ-1", userName |-> "carol"]}

ProjectRows ==
    {[phid |-> "PHID-PROJ-1", name |-> "team"],
     [phid |-> "PHID-PROJ-1", name |-> "crew"],
     [phid |-> "PHID-USER-1", name |-> "solo"]}

RepoRows ==
    {[repositoryPHID |-> "PHID-REPO-1", uri |-> "https://hg.example/a"],
     [repositoryPHID |-> "PHID-REPO-1", uri |-> "ssh://hg.example/a"],
     [repositoryPHID |-> "PHID-REPO-2", uri |-> "https://hg.example/b"]}

\* authors of diffs: a user, an unknown handle, the landing identity, a
\* repository identity, and a handle one character short of that prefix
DiffAuthors ==
    {"PHID-USER-1", "PHID-USER-9", "PHID-APPS-PhabricatorDiffusionApplication",
     "PHID-RIDT-abc", "PHID-RIDT"}

\* the user table of the stores that vary the diffs may name those handles
DiffUserRows ==
    {[phid |-> "PHID-USER-1", userName |-> "alice"],
     [phid |-> "PHID-APPS-PhabricatorDiffusionApplication", userName |-> "landing"],
     [phid |-> "PHID-RIDT-abc", userName |-> "identity"],
     [phid |-> "PHID-RIDT", userName |-> "short"]}

DiffChoices == [revisionID : {1, 2}, authorPHID : DiffAuthors]

AttributeTexts ==
    {"{}",
     "{\"inline.state.initial\": {\"hassuggestion\": \"true\"}}",
     "{\"inline.state.initial\": {\"hassuggestion\": \"false\"}}",
     "{\"inline.state.initial\": {\"hassuggestion\": true}}",
     "{\"inline.state.initial\": {}}",
     "{\"inline.state.initial\": null}",
     "{\"hassuggestion\": \"true\"}",
     "not json"}

InlineChoices ==
    [changesetID : {1, 2}, authorPHID : {"PHID-USER-1", "PHID-USER-9"},
     attributes : AttributeTexts]

TransactionChoices ==
    [objectPHID : {RevPhid(1), RevPhid(2)},
     transactionType : {"core:comment", "core:edit"},
     commentPHID : {"PHID-XCMT-9", "PHID-XCMT-8"}]

ReviewerChoices ==
    [revisionPHID : {RevPhid(1), RevPhid(2)},
     reviewerPHID : {"PHID-USER-1", "PHID-PROJ-1", "PHID-PROJ", "PHID-USER-9"}]

BaseChoice ==
    [user |-> {[phid |-> "PHID-USER-1", userName |-> "alice"]},
     project |-> {[phid |-> "PHID-PROJ-1", name |-> "team"]},
     repository |-> <<[repositoryPHID |-> "PHID-REPO-1", uri |-> "https://hg.example/a"],
                      [repositoryPHID |-> "PHID-REPO-2", uri |-> "https://hg.example/b"]>>,
     diff |-> <<[revisionID |-> 1, authorPHID |-> "PHID-USER-1"],
                [revisionID |-> 2, authorPHID |-> "PHID-USER-1"]>>,
     inline |-> <<[changesetID |-> 1, authorPHID |-> "PHID-USER-1",
                   attributes |-> "{\"inline.state.initial\": {\"hassuggestion\": \"true\"}}"]>>,
     general_author |-> "PHID-USER-1",
     transaction |-> <<[objectPHID |-> RevPhid(1), transactionType |-> "core:comment",
                        commentPHID |-> "PHID-XCMT-9"]>>,
     reviewer |-> <<[revisionPHID |-> RevPhid(1), reviewerPHID |-> "PHID-USER-1"],
                    [revisionPHID |-> RevPhid(2), reviewerPHID |-> "PHID-PROJ-1"]>>]

\* the store of a choice: the rows get their ids (the position in the table;
\* the general comment is row 9) and the columns no choice varies
ProcStore(c) ==
    [revision |-> ProcRevisions,
     edge |-> ProcEdges,
     user |-> c.user,
     project |-> c.project,
     repository_uri |-> c.repository,
     differential_diff |->
        [i \in DOMAIN c.diff |->
            [id |-> i, revisionID |-> c.diff[i].revisionID,
             authorPHID |-> c.diff[i].authorPHID, dateCreated |-> 200 + i]],
     differential_changeset |->
        [i \in 1..MaxRows |-> [id |-> i, diffID |-> i, addLines |-> 5, delLines |-> 2]],
     differential_transaction |-> c.transaction,
     differential_transaction_comment |->
        [i \in DOMAIN c.inline |->
            [id |-> i, phid |-> Key("PHID-XCMT-", i),
             changesetID |-> c.inline[i].changesetID,
             authorPHID |-> c.inline[i].authorPHID,
             attributes |-> c.inline[i].attributes,
             content |-> "nit", dateCreated |-> 500 + i]]
        \o <<[id |-> 9, phid |-> "PHID-XCMT-9", changesetID |-> 0,
              authorPHID |-> c.general_author, attributes |-> "{}",
              content |-> "looks good", dateCreated |-> 509]>>,
     differential_reviewer |->
        [i \in DOMAIN c.reviewer |->
            [id |-> i, revisionPHID |-> c.reviewer[i].revisionPHID,
             reviewerPHID |-> c.reviewer[i].reviewerPHID,
             dateCreated |-> 300 + i, dateModified |-> 400 + i,
             reviewerStatus |-> "accepted"]]]

\* the stores: those varying the lookup tables; the diffs; the inline
\* comments; the general comments; the reviewers
IsProcStore(d) ==
    \/ \E u \in SUBSET UserRows, p \in SUBSET ProjectRows,
          r \in SeqsUpTo(RepoRows, MaxRows) :
          d = ProcStore([BaseChoice EXCEPT !.user = u, !.project = p, !.repository = r])
    \/ \E u \in SUBSET DiffUserRows, x \in SeqsUpTo(DiffChoices, MaxRows) :
          d = ProcStore([BaseChoice EXCEPT !.user = u, !.diff = x])
    \/ \E x \in SeqsUpTo(InlineChoices, MaxRows) :
          d = ProcStore([BaseChoice EXCEPT !.inline = x])
    \/ \E a \in {"PHID-USER-1", "PHID-USER-9"},
          x \in SeqsUpTo(TransactionChoices, MaxRows) :
          d = ProcStore([BaseChoice EXCEPT !.general_author = a, !.transaction = x])
    \/ \E u \in SUBSET UserRows, p \in SUBSET ProjectRows,
          x \in SeqsUpTo(ReviewerChoices, MaxRows) :
          d = ProcStore([BaseChoice EXCEPT !.user = u, !.project = p, !.reviewer = x])

\* a query without ORDER BY: the revisions come in primary-key order
RevisionQuery(d) ==
    [i \in 1..Cardinality(d.revision) |-> CHOOSE r \in d.revision : r.id = i]

InitProcess ==
    /\ IsProcStore(db)
    /\ origin = <<>>
    /\ neighbors = {}
    /\ stack = {}
    /\ rounds = 0
    /\ size = 0
    /\ pc = "process_loop"
    /\ todo = RevisionQuery(db)
    /\ output = <<>>
    /\ report = <<>>

NextProcess == AggregateRevision \/ Abort \/ export_to_json

SpecProcess == InitProcess /\ [][NextProcess]_vars

----------------------------------------------------------------------------
(* The stack of a revision, as the specification describes it.             *)

IsDependency(e) == e.type = 5 \/ e.type = 6

\* a dependency edge joins a and b, in either direction
Linked(a, b) ==
    \E e \in db.edge :
        IsDependency(e) /\ ((e.src = a /\ e.dst = b) \/ (e.src = b /\ e.dst = a))

\* the phids of the revisions whose title has the bug identifier of rev's
SameBug(rev) == {r.phid : r \in {r \in db.revision : BugId(r.title) = BugId(rev.title)}}

\* every handle the store names
AllPhids == {r.phid : r \in db.revision} \cup UNION {{e.src, e.dst} : e \in db.edge}

\* the handles of `allowed` joined to one of S by a chain of at most k
\* dependency edges that stays in `allowed`
RECURSIVE Reach(_, _, _)
Reach(allowed, S, k) ==
    IF k = 0 THEN S
    ELSE Reach(allowed, S \cup {b \in allowed : \E a \in S : Linked(a, b)}, k - 1)

\* the stack of rev: chains on which every revision has rev's bug identifier
Component(rev) == Reach(SameBug(rev), {rev.phid}, Cardinality(db.revision))

\* the handles joined to rev by any chain of dependency edges
ChainReach(rev) == Reach(AllPhids, {rev.phid}, Cardinality(AllPhids))

Returned == pc = "stack_done"

\* C1 as claimed: any two revisions joined by a chain of dependency edges and
\* with the same bug identifier get the same stack size.
C1_SameSizeAlongAnyChain ==
    Returned =>
        \A b \in db.revision :
            (b.phid \in ChainReach(origin) /\ BugId(b.title) = BugId(origin.title))
                => get_stack_size(db, b) = size

\* C1 amended: two revisions joined by a chain of dependency edges on which
\* every revision has their bug identifier get the same stack size.
C1_SameSizeAlongSameBugChain ==
    Returned =>
        \A b \in db.revision :
            b.phid \in Component(origin) => get_stack_size(db, b) = size

\* a second revision of the stack, reached only in the second round
C1_Witness ==
    /\ Returned
    /\ rounds = 3
    /\ \E b \in db.revision :
          b.phid \in Component(origin) /\ ~Linked(origin.phid, b.phid)

\* C2: get_stack_size returns the number of distinct revisions of the
\* origin's stack, each counted once.
C2_SizeIsComponentSize == Returned => size = Cardinality(Component(origin))

\* two revisions joined by two dependency edges: the second one is appended
\* to revlist twice in the first round, and the origin again in the second
C2_Witness ==
    /\ Returned
    /\ size = 2
    /\ rounds = 2
    /\ \E e, f \in db.edge :
          /\ e # f /\ IsDependency(e) /\ IsDependency(f)
          /\ {e.src, e.dst} = stack /\ {f.src, f.dst} = stack

\* C3: the loop terminates.  A frontier never holds a visited handle, so
\* every round makes the visited set strictly larger; the visited set stays
\* inside the finite set of the revisions of the origin's bug, so the rounds
\* never outnumber those revisions.
C3_Terminates ==
    /\ [][StackRound => (stack \subseteq stack' /\ stack # stack')]_vars
    /\ [](neighbors \cap stack = {})
    /\ [](rounds <= Cardinality(stack))
    /\ [](stack \subseteq SameBug(origin))

\* a cycle: a type-5 edge from the origin to a revision of its bug and the
\* type-6 edge back; the loop has returned
C3_Witness ==
    /\ Returned
    /\ rounds = 2
    /\ \E e, f \in db.edge :
          /\ e.type = 5 /\ f.type = 6
          /\ e.src = origin.phid /\ f.dst = origin.phid
          /\ e.dst = f.src /\ e.dst # origin.phid /\ e.dst \in stack

\* C4: a revision that no dependency edge names has stack size 1.
C4_NoEdgeSizeOne ==
    Returned =>
        ((\A e \in db.edge : IsDependency(e) => (e.src # origin.phid /\ e.dst # origin.phid))
            => size = 1)

\* the origin is named by an edge of another type only, other revisions of
\* its bug are linked to each other
C4_Witness ==
    /\ Returned
    /\ \A e \in db.edge : IsDependency(e) => (e.src # origin.phid /\ e.dst # origin.phid)
    /\ \E e \in db.edge : ~IsDependency(e) /\ e.src = origin.phid
                            /\ e.dst \in SameBug(origin) /\ e.dst # origin.phid
    /\ \E e \in db.edge : IsDependency(e) /\ e.src # e.dst
                            /\ {e.src, e.dst} \subseteq SameBug(origin)
    /\ size = 1

\* C10: the frontier and the visited set are disjoint and hold only phids of
\* revisions of the origin's bug; the first round has a frontier to expand;
\* the size returned is between 1 and the number of those revisions.
C10_LoopInvariant ==
    /\ neighbors \cap stack = {}
    /\ (neighbors \cup stack) \subseteq SameBug(origin)
    /\ (pc = "stack_loop" /\ rounds = 0) => neighbors # {}
    /\ Returned => (1 <= size /\ size <= Cardinality(SameBug(origin)))

\* the first round found the origin linked to a handle that is no revision
\* and to a revision of another bug, and took neither
C10_Witness ==
    /\ pc = "stack_loop"
    /\ rounds = 1
    /\ stack = {origin.phid}
    /\ neighbors = {}
    /\ \E a \in AllPhids : Linked(origin.phid, a) /\ a \notin {r.phid : r \in db.revision}
    /\ \E r \in db.revision : Linked(origin.phid, r.phid) /\ r.phid \notin SameBug(origin)

----------------------------------------------------------------------------
(* What process reads for one revision, as the specification describes it. *)

Rows(table) == {table[i] : i \in DOMAIN table}

\* p is the beginning of h
Prefixed(h, p) == \E n \in 0..Len(h) : SubSeq(h, 1, n) = p

\* the revision an entry of the report is about
RevOf(key) == CHOOSE r \in db.revision : Key("D", r.id) = key

\* the diffs of r that are human submissions
MaterialDiffs(r) ==
    {x \in Rows(db.differential_diff) :
        /\ x.revisionID = r.id
        /\ x.authorPHID # "PHID-APPS-PhabricatorDiffusionApplication"
        /\ ~Prefixed(x.authorPHID, "PHID-RIDT-")}

ChangesetsOf(x) == {cs \in Rows(db.differential_changeset) : cs.diffID = x.id}

InlineOf(cs) == {c \in Rows(db.differential_transaction_comment) : c.changesetID = cs.id}

\* the inline comments of the materialized diffs of r
InlineComments(r) == UNION {InlineOf(cs) : cs \in UNION {ChangesetsOf(x) : x \in MaterialDiffs(r)}}

\* the general comments of r
GeneralComments(r) ==
    {c \in Rows(db.differential_transaction_comment) :
        \E x \in Rows(db.differential_transaction) :
            /\ x.objectPHID = r.phid
            /\ x.transactionType = "core:comment"
            /\ x.commentPHID = c.phid}

ReviewersOf(r) == {v \in Rows(db.differential_reviewer) : v.revisionPHID = r.phid}

UserCount(h) == Cardinality({u \in db.user : u.phid = h})

RepoMatches(r) ==
    {i \in DOMAIN db.repository_uri :
        db.repository_uri[i].repositoryPHID = r.repositoryPHID}

\* the handles process resolves to one user for r: diff and comment authors
AuthorHandles(r) ==
    {x.authorPHID : x \in MaterialDiffs(r)}
    \cup {c.authorPHID : c \in InlineComments(r) \cup GeneralComments(r)}

\* C5 as claimed: a record is produced for a revision only if its repository
\* lookup and each of its author lookups matched exactly one row.
C5_EveryLookupExactlyOne ==
    \A key \in DOMAIN output :
        /\ Cardinality(RepoMatches(RevOf(key))) = 1
        /\ \A h \in AuthorHandles(RevOf(key)) : UserCount(h) = 1

\* C5 amended: a record is produced for a revision only if each of its author
\* lookups matched exactly one row and its repository lookup matched at least
\* one; with several matching repository rows the first one's uri is reported.
C5_ZeroFatalManyFatalForAuthors ==
    \A key \in DOMAIN output :
        /\ RepoMatches(RevOf(key)) # {}
        /\ \A i \in RepoMatches(RevOf(key)) :
              (\A j \in RepoMatches(RevOf(key)) : i <= j)
                 => output[key].target_repository = db.repository_uri[i].uri
        /\ \A h \in AuthorHandles(RevOf(key)) : UserCount(h) = 1

\* the run aborted on a revision one of whose authors matches two user rows
C5_Witness ==
    /\ pc = "aborted"
    /\ Cardinality(RepoMatches(Head(todo))) = 1
    /\ \E h \in AuthorHandles(Head(todo)) : UserCount(h) = 2

\* C6: the report is written only when every revision was aggregated, each
\* with all its lookups resolved and none of its comments left out; after an
\* abort no report exists.
C6_ReportOnlyAfterAllAggregated ==
    /\ pc = "aborted" => report = <<>>
    /\ report # <<>> =>
        /\ todo = <<>>
        /\ pc = "exported"
        /\ DOMAIN report[1] = {Key("D", r.id) : r \in db.revision}
        /\ \A r \in db.revision :
            LET rec == report[1][Key("D", r.id)]
            IN  /\ RepoMatches(r) # {}
                /\ \A h \in AuthorHandles(r) : UserCount(h) = 1
                /\ \A c \in GeneralComments(r) : Key("comment-", c.id) \in DOMAIN rec.comments
                /\ \A x \in MaterialDiffs(r) : \A cs \in ChangesetsOf(x) : \A c \in InlineOf(cs) :
                      Key("comment-", c.id) \in
                        DOMAIN rec.diffs[Key("diff-", x.id)].changesets[Key("changeset-", cs.id)].comments

\* the first revision was aggregated, the second has a general comment whose
\* author is no user: the run aborted
C6_Witness ==
    /\ pc = "aborted"
    /\ DOMAIN output = {"D1"}
    /\ \E c \in GeneralComments(Head(todo)) : UserCount(c.authorPHID) = 0
    /\ report = <<>>

\* C7: the diff mapping of a revision has an entry diff-<id> for each of its
\* diffs whose author is neither the landing identity nor a repository
\* identity, and no other entry.
C7_DiffMapping ==
    \A key \in DOMAIN output :
        /\ DOMAIN output[key].diffs = {Key("diff-", x.id) : x \in MaterialDiffs(RevOf(key))}
        /\ \A x \in Rows(db.differential_diff) :
              (x.authorPHID = "PHID-APPS-PhabricatorDiffusionApplication"
               \/ Prefixed(x.authorPHID, "PHID-RIDT-"))
                 => Key("diff-", x.id) \notin DOMAIN output[key].diffs

\* a revision with a repository-identity diff, left out although the user
\* table names its author, and a diff by "PHID-RIDT", kept
C7_Witness ==
    \E key \in DOMAIN output :
        /\ \E x \in Rows(db.differential_diff) :
              /\ x.revisionID = RevOf(key).id
              /\ x.authorPHID = "PHID-RIDT-abc"
              /\ UserCount(x.authorPHID) = 1
        /\ \E x \in MaterialDiffs(RevOf(key)) : x.authorPHID = "PHID-RIDT"

\* the attributes text marks a suggestion
MarksSuggestion(text) ==
    LET doc == json_loads(text).value
    IN  \E k \in DOMAIN doc.m :
            /\ k = "inline.state.initial"
            /\ doc.m[k].t = "obj"
            /\ \E j \in DOMAIN doc.m[k].m :
                  j = "hassuggestion" /\ doc.m[k].m[j] = JStr("true")

\* the attributes text is a JSON object whose inline.state.initial, when it
\* has one, is an object
PlainAttributes(text) ==
    /\ ~json_loads(text).raised
    /\ LET doc == json_loads(text).value
       IN  \A k \in DOMAIN doc.m : k = "inline.state.initial" => doc.m[k].t = "obj"

C9_ReviewerBranch ==
    \A key \in DOMAIN output :
        \A x \in MaterialDiffs(RevOf(key)) : \A v \in ReviewersOf(RevOf(key)) :
            LET reviews == output[key].diffs[Key("diff-", x.id)].review_requests
                entry == reviews[Key("review-", v.id)]
            IN  /\ Key("review-", v.id) \in DOMAIN reviews
                /\ entry.is_group = Prefixed(v.reviewerPHID, "PHID-PROJ-")
                /\ entry.is_group =>
                      entry.reviewer \in {p.name : p \in {p \in db.project : p.phid = v.reviewerPHID}}
                /\ ~entry.is_group =>
                      entry.reviewer \in {u.userName : u \in {u \in db.user : u.phid = v.reviewerPHID}}

\* a revision reviewed by a group and by a user, each handle in both tables
C9_Witness ==
    \E key \in DOMAIN output :
        \E x \in MaterialDiffs(RevOf(key)) : \E v, w \in ReviewersOf(RevOf(key)) :
            LET reviews == output[key].diffs[Key("diff-", x.id)].review_requests
            IN  /\ reviews[Key("review-", v.id)].is_group
                /\ ~reviews[Key("review-", w.id)].is_group
                /\ \E u \in db.user : u.phid = v.reviewerPHID
                /\ \E p \in db.project : p.phid = w.reviewerPHID

====
